---- MODULE Spec2Model ----
(***************************************************************************)
(* Model of the order completion analysis application (src/app.py).       *)
(*                                                                         *)
(* A table (pandas DataFrame) is a record [cols, rows]: cols is the set of *)
(* column names and rows the sequence of rows.  A row is a record of the   *)
(* cells by role; the cell of a column the table does not have is null.    *)
(* The null cell (Python None / NaN / NaT) is None in an order id or       *)
(* province cell, NaN in a city cell and NaT in a time cell.  NoneDf is    *)
(* the value None where a table is expected, NoneResult where a result is. *)
(*                                                                         *)
(* Column names are written in pinyin because the module is ASCII:         *)
(*   gongdanhao = 工单号 (order id)      wangong_shijian = 完工时间        *)
(*   sheng = 省, shengfen = 省份         shi = 市, chengshi = 城市         *)
(*   laidan_shijian = 来单时间           chuangjian_shijian = 工单创建时间 *)
(*   yuyue_wangong = 预约完工时间        yuyue_kaishi = 预约开始时间       *)
(*   yuyue_jieshu = 预约结束时间         qiandao_shijian = 上门签到时间    *)
(* A city name is a sequence of characters; the character 市 is "shi" and  *)
(* a line feed is "nl".                                                    *)
(***************************************************************************)
EXTENDS Integers, Sequences, FiniteSets, TLC

VARIABLES plan_df, actual_df, selected_provinces, selected_cities,
          filter_applied, analysis_result, checkin_result, normalized,
          sessions, started, history, history_file, clock, last_run,
          filtered_history_sorted, plan_file, actual_file

\* The tables, the selection and the results of a session.
data_vars == <<plan_df, actual_df, selected_provinces, selected_cities,
               filter_applied, analysis_result, checkin_result, normalized>>

\* The history log: the browser sessions that are open, those that have run
\* init_session_state, the log of each in st.session_state.history, the
\* content of HISTORY_FILE, the wall clock, the widget event handled by the
\* last script run and the list the history page has displayed.
history_vars == <<sessions, started, history, history_file, clock, last_run,
                  filtered_history_sorted>>

\* The files held by the two uploaders of the import page.
upload_vars == <<plan_file, actual_file>>

vars == <<data_vars, history_vars, upload_vars>>

None == "None"

NaN == <<"NaN">>

NaT == 0

\* A time cell that pd.to_datetime cannot parse.
Unparseable == -1

NoneDf == [none |-> TRUE]

\* Both uploaders are empty.
NoUploads == plan_file = NoneDf /\ actual_file = NoneDf

NoneResult == [kind |-> "None"]

\* The outcome of a call that raises KeyError.
KeyError == [kind |-> "KeyError"]

\* Largest number of rows of an input table.
MaxRows == 2

\* Largest number of characters of a raw city name.
MaxCityLen == 2

SeqsUpTo(S, n) == UNION {[1..k -> S] : k \in 0..n}

Row(id, prov, city, t0, t1, tc) ==
    [gongdanhao |-> id, shengfen |-> prov, chengshi |-> city,
     yuyue_kaishi |-> t0, yuyue_jieshu |-> t1, qiandao_shijian |-> tc]

RECURSIVE SumOver(_, _)
\* Sum of f[x] over the elements x of the finite set S.
SumOver(f, S) ==
    IF S = {} THEN 0
    ELSE LET x == CHOOSE y \in S : TRUE IN f[x] + SumOver(f, S \ {x})

RECURSIVE Gcd(_, _)
Gcd(a, b) == IF b = 0 THEN a ELSE Gcd(b, a % b)

----------------------------------------------------------------------------
(* Schema normalizer: validate_and_process_data                            *)

\* DataFrame.rename(columns=rename_map): a column whose name is a key of the
\* map takes the mapped name.
Rename(cols, rename_map) ==
    {IF c \in DOMAIN rename_map THEN rename_map[c] ELSE c : c \in cols}

plan_rename_map ==
    [c \in {"laidan_shijian", "sheng", "shi"} |->
        CASE c = "laidan_shijian" -> "chuangjian_shijian"
          [] c = "sheng" -> "shengfen"
          [] c = "shi" -> "chengshi"]

actual_rename_map ==
    [c \in {"sheng", "shi"} |->
        CASE c = "sheng" -> "shengfen"
          [] c = "shi" -> "chengshi"]

cols_to_drop == {"yuyue_wangong"}

required_cols == {"gongdanhao", "shengfen", "chengshi", "wangong_shijian"}

\* Series.str.replace('市$', '', regex=True) on one cell: a cell that is not a
\* string becomes NaN; in a string the 市 that ends it, or that stands before
\* a final line feed ($ also matches there), is removed.
StrReplaceShi(v) ==
    IF v = NaN THEN NaN
    ELSE LET n == Len(v) IN
         IF n >= 1 /\ v[n] = "shi" THEN SubSeq(v, 1, n - 1)
         ELSE IF n >= 2 /\ v[n] = "nl" /\ v[n - 1] = "shi"
              THEN SubSeq(v, 1, n - 2) \o <<"nl">>
              ELSE v

\* df.loc[:, '城市'] = df['城市'].str.replace('市$', '', regex=True), under
\* the guard "if '城市' in df.columns".
CleanCity(df) ==
    IF "chengshi" \in df.cols
    THEN [df EXCEPT !.rows =
             [i \in DOMAIN df.rows |->
                 [df.rows[i] EXCEPT !.chengshi = StrReplaceShi(@)]]]
    ELSE df

\* df['城市'].str raises AttributeError when the column holds no string: a
\* column of a table with rows in which every cell is empty is read as a
\* column of floats.  The column of a table without rows holds objects.
StrAccessorRaises(df) ==
    /\ df # NoneDf
    /\ "chengshi" \in df.cols
    /\ Len(df.rows) > 0
    /\ \A i \in DOMAIN df.rows : df.rows[i].chengshi = NaN

ProcessPlan(df) ==
    IF df = NoneDf THEN NoneDf
    ELSE LET renamed == [df EXCEPT !.cols = Rename(@, plan_rename_map)]
             dropped == [renamed EXCEPT !.cols = @ \ cols_to_drop]
         IN CleanCity(dropped)

ProcessActual(df) ==
    IF df = NoneDf THEN NoneDf
    ELSE CleanCity([df EXCEPT !.cols = Rename(@, actual_rename_map)])

\* The error list: one message naming the missing required columns of the
\* Actual table, or no message.
ValidationErrors(df) ==
    IF df = NoneDf THEN <<>>
    ELSE LET missing_cols == required_cols \ ProcessActual(df).cols
         IN IF missing_cols # {} THEN <<missing_cols>> ELSE <<>>

\* The call raises instead of returning: the city clean-up of one of the
\* renamed tables raises.
ValidateRaises(p, a) ==
    \/ p # NoneDf /\ StrAccessorRaises([p EXCEPT !.cols = Rename(@, plan_rename_map)])
    \/ a # NoneDf /\ StrAccessorRaises([a EXCEPT !.cols = Rename(@, actual_rename_map)])

\* The value returned when the call does not raise.
validate_and_process_data(p, a) ==
    <<ProcessPlan(p), ProcessActual(a), ValidationErrors(a)>>

----------------------------------------------------------------------------
(* Order reconciler and region aggregator                                  *)

\* set(rows['工单号']) without dropna: the null id is an element.
IdSetKeepNull(rows) == {rows[i].gongdanhao : i \in DOMAIN rows}

\* set(rows['工单号'].dropna()): the distinct non-null order ids of the rows.
IdSet(rows) == {rows[i].gongdanhao : i \in DOMAIN rows} \ {None}

\* The difference taken the wrong way round.
ModifiedIdsSwapped(plan_ids, actual_ids) == plan_ids \ actual_ids

\* plan_ids.intersection(actual_ids)
OnTimeIds(plan_ids, actual_ids) == plan_ids \cap actual_ids

\* actual_ids.difference(plan_ids)
ModifiedIds(plan_ids, actual_ids) == actual_ids \ plan_ids

\* df[df[col].isin(selected)]: the rows whose cell is one of the selected
\* values (a NaN cell is in no selection).
Isin(df, col, selected) ==
    [df EXCEPT !.rows = SelectSeq(@, LAMBDA r : r[col] \in selected)]

\* Every row taken for the rows of the city.
CityRowsAll(df, city) == df.rows

\* df[df['城市'] == city]
CityRows(df, city) == SelectSeq(df.rows, LAMBDA r : r.chengshi = city)

\* The rate without the guard's value for an empty plan: 100 instead of 0.
RateFullWhenEmpty(today_completed, total_plan) ==
    IF total_plan > 0
    THEN LET g == Gcd(today_completed * 100, total_plan)
         IN [num |-> (today_completed * 100) \div g, den |-> total_plan \div g]
    ELSE [num |-> 100, den |-> 1]

\* today_completed / total_plan * 100 if total_plan > 0 else 0.  The float is
\* modelled by the fraction in lowest terms, so equal floats are equal values.
Rate(today_completed, total_plan) ==
    IF total_plan > 0
    THEN LET g == Gcd(today_completed * 100, total_plan)
         IN [num |-> (today_completed * 100) \div g, den |-> total_plan \div g]
    ELSE [num |-> 0, den |-> 1]

\* f"{completion_rate:.2f}%": the rate in hundredths of a percent, rounded to
\* the nearest (a tie needs a plan count that is a multiple of 32).
FormatRate(rate) == (2 * 100 * rate.num + rate.den) \div (2 * rate.den)

\* The planned rows of the city counted, not their distinct order ids.
CityPlanCountRows(city_plan) == Len(city_plan)

\* plan_count = len(set(city_plan['工单号'].dropna()))
CityPlanCount(city_plan) == Cardinality(IdSet(city_plan))

\* The row of one city in analyze_region_details.
RegionRow(p, a, city) ==
    LET city_plan == CityRows(p, city)
        city_plan_ids == IdSet(city_plan)
        plan_count == CityPlanCount(city_plan)
        city_actual == CityRows(a, city)
        city_actual_ids == IdSet(city_actual)
        on_time_count == Cardinality(city_plan_ids \cap city_actual_ids)
        modified_count == Cardinality(city_actual_ids \ city_plan_ids)
        today_completed == on_time_count + modified_count
        completion_rate == Rate(today_completed, plan_count)
        province == IF Len(city_plan) > 0 THEN city_plan[1].shengfen
                    ELSE IF Len(city_actual) > 0 THEN city_actual[1].shengfen
                    ELSE ""
    IN [shengfen |-> province, chengshi |-> city, plan_count |-> plan_count,
        on_time_count |-> on_time_count, modified_count |-> modified_count,
        wangonglv |-> FormatRate(completion_rate)]

\* all_cities: the non-null cities of the Planned table and, when the Actual
\* table has the column, of the Actual table.
AllCities(p, a) ==
    ({p.rows[i].chengshi : i \in DOMAIN p.rows}
       \cup (IF "chengshi" \in a.cols
             THEN {a.rows[i].chengshi : i \in DOMAIN a.rows} ELSE {})) \ {NaN}

\* The column lookups of the loop body that raise KeyError.
RegionRaises(p, a) ==
    /\ AllCities(p, a) # {}
    /\ \/ "gongdanhao" \notin p.cols
       \/ "chengshi" \notin a.cols
       \/ "gongdanhao" \notin a.cols
       \/ /\ "shengfen" \notin a.cols
          /\ \E city \in AllCities(p, a) :
                Len(CityRows(p, city)) = 0 /\ Len(CityRows(a, city)) > 0

\* df.sort_values('计划待完工', ascending=False) of the rows appended in the
\* iteration order of the Python set all_cities, which is arbitrary: every
\* order of the rows with non-increasing plan counts.
SortedFrames(R) ==
    {s \in [1..Cardinality(R) -> R] :
        /\ \A i, j \in DOMAIN s : i # j => s[i] # s[j]
        /\ \A i, j \in DOMAIN s : i < j => s[i].plan_count >= s[j].plan_count}

\* The set of possible outcomes: the frame returned, or a raised KeyError.
analyze_region_details(p, a) ==
    IF p = NoneDf \/ a = NoneDf THEN {[raised |-> FALSE, frame |-> <<>>]}
    ELSE IF "shengfen" \notin p.cols \/ "chengshi" \notin p.cols
         THEN {[raised |-> FALSE, frame |-> <<>>]}
    ELSE IF RegionRaises(p, a) THEN {[raised |-> TRUE, frame |-> <<>>]}
    ELSE {[raised |-> FALSE, frame |-> s] :
            s \in SortedFrames({RegionRow(p, a, city) : city \in AllCities(p, a)})}

\* The city filter skipped when a province filter is given.
FilteredElif(df, provinces, cities) ==
    IF provinces # {} THEN Isin(df, "shengfen", provinces)
    ELSE IF cities # {} THEN Isin(df, "chengshi", cities) ELSE df

\* The province filter and then the city filter on one table.
Filtered(df, provinces, cities) ==
    LET byProvince == IF provinces # {} THEN Isin(df, "shengfen", provinces) ELSE df
    IN IF cities # {} THEN Isin(byProvince, "chengshi", cities) ELSE byProvince

\* The column lookups of the two filters that raise KeyError.
FilterRaises(p, a, provinces, cities) ==
    \/ provinces # {} /\ ("shengfen" \notin p.cols \/ "shengfen" \notin a.cols)
    \/ cities # {} /\ ("chengshi" \notin p.cols \/ "chengshi" \notin a.cols)

\* The set of possible return values of analyze_data_by_region.
analyze_data_by_region(p, a, provinces, cities) ==
    IF p = NoneDf \/ a = NoneDf THEN {NoneResult}
    ELSE IF FilterRaises(p, a, provinces, cities) THEN {KeyError}
    ELSE
      LET filtered_plan == Filtered(p, provinces, cities)
          filtered_actual == Filtered(a, provinces, cities)
          plan_ids == IF "gongdanhao" \in filtered_plan.cols
                      THEN IdSet(filtered_plan.rows) ELSE {}
          actual_ids == IF "gongdanhao" \in filtered_actual.cols
                        THEN IdSet(filtered_actual.rows) ELSE {}
          total_plan == Cardinality(plan_ids)
          total_actual == Cardinality(actual_ids)
          on_time_ids == OnTimeIds(plan_ids, actual_ids)
          modified_ids == ModifiedIds(plan_ids, actual_ids)
          on_time_count == Cardinality(on_time_ids)
          modified_count == Cardinality(modified_ids)
          today_completed == on_time_count + modified_count
          completion_rate == Rate(today_completed, total_plan)
          stats == analyze_region_details(filtered_plan, filtered_actual)
      IN IF \E o \in stats : o.raised THEN {KeyError}
         ELSE {[total_plan |-> total_plan, total_actual |-> total_actual,
                on_time |-> on_time_count, modified |-> modified_count,
                today_completed |-> today_completed,
                completion_rate |-> completion_rate,
                region_stats |-> o.frame] : o \in stats}

----------------------------------------------------------------------------
(* History recorder: init_session_state, save_history, save_to_history and *)
(* the history page                                                        *)

\* Largest number of entries of a history log.
MaxHistory == 2

\* Last second of the wall clock.
MaxClock == 3

Sessions == {"s1", "s2"}

\* date.today().strftime('%Y-%m-%d') at second t of the clock, as the pair
\* (year-month, day); the order of the pairs is the order of the strings.  A
\* day of the model lasts one second and a month two days.
DateOf(t) == <<t \div 2, t>>

\* The value of 'analysis_date' in an entry that has no such key.
NoDate == <<>>

\* The content of HISTORY_FILE when the file does not exist.
NoFile == <<[exists |-> FALSE]>>

\* No widget event has been handled.
NoRun ==
    [session |-> "none", widget |-> "none", mode |-> "none", selected |-> NoDate,
     idx |-> 0, target |-> 0, title |-> None, shown |-> "none", errors |-> <<>>]

\* The history variables of a program that keeps no history.
NoHistory ==
    /\ sessions = {}
    /\ started = {}
    /\ history = [s \in Sessions |-> <<>>]
    /\ history_file = NoFile
    /\ clock = 0
    /\ last_run = NoRun
    /\ filtered_history_sorted = <<>>

\* JSON values: null, a string and a number.
JsonNull == <<"null">>

JsonString(v) == <<"str", v>>

JsonNumber(v) == <<"num", v>>

\* json.dump of one entry: None is written as null, a string as a string, a
\* count or a rate as a number; a key the entry does not have is not written.
JsonDumpEntry(h) ==
    [id |-> JsonString(h.id),
     created_at |-> JsonString(h.created_at),
     analysis_date |-> IF h.analysis_date = NoDate THEN NoDate
                       ELSE JsonString(h.analysis_date),
     custom_title |-> IF h.custom_title = None THEN JsonNull
                      ELSE JsonString(h.custom_title),
     stats |-> [k \in DOMAIN h.stats |-> JsonNumber(h.stats[k])]]

\* json.load of one entry.
JsonLoadEntry(j) ==
    [id |-> j.id[2],
     created_at |-> j.created_at[2],
     analysis_date |-> IF j.analysis_date = NoDate THEN NoDate
                       ELSE j.analysis_date[2],
     custom_title |-> IF j.custom_title = JsonNull THEN None
                      ELSE j.custom_title[2],
     stats |-> [k \in DOMAIN j.stats |-> j.stats[k][2]]]

\* json.dump(st.session_state.history, f): the content written.
json_dump(log) == [i \in DOMAIN log |-> JsonDumpEntry(log[i])]

\* json.load(f)
json_load(content) == [i \in DOMAIN content |-> JsonLoadEntry(content[i])]

\* The file written with the newest entry only.
save_history_newest(log) == json_dump(IF log = <<>> THEN <<>> ELSE <<log[1]>>)

\* save_history: the file is opened with 'w' and takes the whole log.
save_history(log) == json_dump(log)

\* The entry with the title taken from the result's plan count.
history_item_titled(result, now) ==
    [id |-> now, created_at |-> now, analysis_date |-> DateOf(now),
     custom_title |-> "t1",
     stats |-> [total_plan |-> result.total_plan,
                total_actual |-> result.total_actual,
                on_time |-> result.on_time,
                modified |-> result.modified,
                completion_rate |-> result.completion_rate]]

\* history_item: id and created_at are the clock to the second, in two
\* formats, and analysis_date is the date of the clock.
history_item(result, now) ==
    [id |-> now, created_at |-> now, analysis_date |-> DateOf(now),
     custom_title |-> None,
     stats |-> [total_plan |-> result.total_plan,
                total_actual |-> result.total_actual,
                on_time |-> result.on_time,
                modified |-> result.modified,
                completion_rate |-> result.completion_rate]]

\* The log replaced by the new entry.
save_to_history_alone(log, result, now) ==
    IF result = NoneResult THEN log ELSE <<history_item(result, now)>>

\* The log after save_to_history(result): unchanged for the result None,
\* else with the new entry inserted at index 0.
save_to_history(log, result, now) ==
    IF result = NoneResult THEN log ELSE <<history_item(result, now)>> \o log

\* list.remove(record): the log without its first entry equal to record.
Remove(log, record) ==
    LET first == CHOOSE i \in DOMAIN log :
                    log[i] = record /\ \A j \in 1..(i - 1) : log[j] # record
    IN SubSeq(log, 1, first - 1) \o SubSeq(log, first + 1, Len(log))

\* The time modes of the history page: "ri" is 日 (day), "yue" is 月 (month).
TimeModes == {"ri", "yue"}

\* The positions of the entries that pass the time filter: in the day mode
\* the entries of the selected date, in the month mode those whose date
\* starts with the selected year-month.
FilteredPositions(log, mode, selected) ==
    {i \in DOMAIN log :
        /\ log[i].analysis_date # NoDate
        /\ IF mode = "ri" THEN log[i].analysis_date = selected
           ELSE log[i].analysis_date[1] = selected}

\* The order of the dates as strings; the default '' is before every date.
DateLess(a, b) ==
    IF a = NoDate THEN b # NoDate
    ELSE IF b = NoDate THEN FALSE
    ELSE a[1] < b[1] \/ (a[1] = b[1] /\ a[2] < b[2])

\* The order of the keys with the entries that have a title put first.
KeyLessTitled(x, y) ==
    LET nx == x.custom_title # None
        ny == y.custom_title # None
    IN (~nx /\ ny) \/ (nx = ny /\ DateLess(x.analysis_date, y.analysis_date))

\* The order of the sort keys (custom_title is None, analysis_date).
KeyLess(x, y) ==
    LET nx == x.custom_title = None
        ny == y.custom_title = None
    IN (~nx /\ ny) \/ (nx = ny /\ DateLess(x.analysis_date, y.analysis_date))

\* sorted(filtered_history, key=..., reverse=True) as positions of the log:
\* the keys descend and entries of equal keys keep their order.
SortedPositions(log, mode, selected) ==
    LET F == FilteredPositions(log, mode, selected)
        rank(i) == 1 + Cardinality({j \in F :
                          \/ KeyLess(log[i], log[j])
                          \/ /\ ~KeyLess(log[j], log[i])
                             /\ j < i})
    IN [k \in 1..Cardinality(F) |-> CHOOSE i \in F : rank(i) = k]

\* filtered_history_sorted
Retrieve(log, mode, selected) ==
    LET pos == SortedPositions(log, mode, selected)
    IN [k \in DOMAIN pos |-> log[pos[k]]]

\* The dates that can be selected at second t: the dates up to today.
SelectableDates(now) == {DateOf(t) : t \in 0..now}

\* The months that can be selected: every month of last year and of this
\* year, the months to come included.
SelectableMonths(now) == {DateOf(t)[1] : t \in 0..MaxClock}

Selectable(mode, now) ==
    IF mode = "ri" THEN SelectableDates(now) ELSE SelectableMonths(now)

\* The first script run of a session: init_session_state loads the log from
\* the file, or starts an empty log when there is no file.
InitSessionState(s) ==
    /\ s \in sessions \ started
    /\ started' = started \cup {s}
    /\ history' = [history EXCEPT ![s] =
                      IF history_file = NoFile THEN <<>> ELSE json_load(history_file)]
    /\ last_run' = [NoRun EXCEPT !.session = s, !.widget = "open"]
    /\ UNCHANGED <<sessions, history_file, clock, filtered_history_sorted>>
    /\ UNCHANGED <<data_vars, upload_vars>>

\* save_to_history(result) in session s.
SaveToHistory(s, result) ==
    /\ s \in started
    /\ SumOver([t \in Sessions |-> Len(history[t])], Sessions) < MaxHistory
    /\ history' = [history EXCEPT ![s] = save_to_history(@, result, clock)]
    /\ history_file' = IF result = NoneResult THEN history_file
                       ELSE save_history(history'[s])
    /\ last_run' = [NoRun EXCEPT !.session = s, !.widget = "record"]
    /\ UNCHANGED <<sessions, started, clock, filtered_history_sorted>>
    /\ UNCHANGED <<data_vars, upload_vars>>

\* The button 编辑标题 of the entry displayed at position idx: this script
\* run shows the title input and the button 保存 and changes nothing.
ClickEditTitle(s, mode, selected, idx) ==
    /\ s \in started
    /\ idx \in DOMAIN SortedPositions(history[s], mode, selected)
    /\ last_run' = [NoRun EXCEPT !.session = s, !.widget = "edit", !.idx = idx,
                       !.target = SortedPositions(history[s], mode, selected)[idx]]
    /\ UNCHANGED <<sessions, started, history, history_file, clock,
                   filtered_history_sorted>>
    /\ UNCHANGED <<data_vars, upload_vars>>

\* The button 保存, which is on the page only after the run of 编辑标题.  A
\* button is True in the one run its click starts: in the run of 保存 the
\* button 编辑标题 is False, so the branch that holds the title input, the
\* assignment to record['custom_title'] and save_history() is not entered.
ClickSaveTitle(s, new_title) ==
    /\ s \in started
    /\ last_run.session = s
    /\ last_run.widget = "edit"
    /\ last_run' = [last_run EXCEPT !.widget = "save", !.title = new_title]
    /\ UNCHANGED <<sessions, started, history, history_file, clock,
                   filtered_history_sorted>>
    /\ UNCHANGED <<data_vars, upload_vars>>

\* The button 删除记录 of the entry displayed at position idx.
ClickDelete(s, mode, selected, idx) ==
    /\ s \in started
    /\ idx \in DOMAIN SortedPositions(history[s], mode, selected)
    /\ LET record == Retrieve(history[s], mode, selected)[idx]
       IN history' = [history EXCEPT ![s] = Remove(@, record)]
    /\ history_file' = save_history(history'[s])
    /\ last_run' = [NoRun EXCEPT !.session = s, !.widget = "delete", !.idx = idx,
                       !.target = SortedPositions(history[s], mode, selected)[idx]]
    /\ UNCHANGED <<sessions, started, clock, filtered_history_sorted>>
    /\ UNCHANGED <<data_vars, upload_vars>>

\* A second passes.
Tick ==
    /\ clock < MaxClock
    /\ clock' = clock + 1
    /\ UNCHANGED <<sessions, started, history, history_file, last_run,
                   filtered_history_sorted>>
    /\ UNCHANGED <<data_vars, upload_vars>>

\* The results recorded: None and the results of two analyses.
HistoryTables ==
    {<<Row("o1", "A", <<"x">>, NaT, NaT, NaT)>>,
     <<Row("o1", "A", <<"x">>, NaT, NaT, NaT), Row("o2", "A", <<"x">>, NaT, NaT, NaT)>>}

HistoryResults ==
    {NoneResult} \cup
    UNION {analyze_data_by_region(
               [cols |-> {"gongdanhao", "shengfen", "chengshi", "chuangjian_shijian"},
                rows |-> <<Row("o1", "A", <<"x">>, NaT, NaT, NaT)>>],
               [cols |-> {"gongdanhao", "shengfen", "chengshi", "wangong_shijian"},
                rows |-> rs], {}, {}) : rs \in HistoryTables}

\* An entry written by an earlier run of the program.
OldEntry ==
    [id |-> 0, created_at |-> 0, analysis_date |-> DateOf(0), custom_title |-> None,
     stats |-> [total_plan |-> 0, total_actual |-> 0, on_time |-> 0, modified |-> 0,
                completion_rate |-> [num |-> 0, den |-> 1]]]

HistoryInitFor(open) ==
    /\ plan_df = NoneDf
    /\ actual_df = NoneDf
    /\ selected_provinces = {}
    /\ selected_cities = {}
    /\ filter_applied = FALSE
    /\ analysis_result = NoneResult
    /\ checkin_result = NoneResult
    /\ normalized = FALSE
    /\ NoUploads
    /\ sessions \in open
    /\ started = {}
    /\ history = [s \in Sessions |-> <<>>]
    /\ history_file \in {NoFile, json_dump(<<>>), json_dump(<<OldEntry>>)}
    /\ clock = 1
    /\ last_run = NoRun
    /\ filtered_history_sorted = <<>>

HistoryNext ==
    \/ \E s \in sessions : InitSessionState(s)
    \/ \E s \in sessions, result \in HistoryResults : SaveToHistory(s, result)
    \/ \E s \in sessions, mode \in TimeModes :
          \E selected \in Selectable(mode, clock), idx \in 1..MaxHistory :
              ClickEditTitle(s, mode, selected, idx)
    \/ \E s \in sessions, new_title \in {"", "t1"} : ClickSaveTitle(s, new_title)
    \/ \E s \in sessions, mode \in TimeModes :
          \E selected \in Selectable(mode, clock), idx \in 1..MaxHistory :
              ClickDelete(s, mode, selected, idx)
    \/ Tick

\* One session uses the history file.
SpecHistory == HistoryInitFor({{"s1"}}) /\ [][HistoryNext]_vars

\* The history page rendered in the time mode and for the date or the month
\* selected: the entries are filtered, sorted and displayed.  Each log is
\* rendered once.
RenderHistoryPage(s, mode, selected) ==
    /\ s \in started
    /\ last_run.widget = "none"
    /\ filtered_history_sorted' = Retrieve(history[s], mode, selected)
    /\ last_run' = [NoRun EXCEPT !.session = s, !.widget = "history",
                       !.mode = mode, !.selected = selected]
    /\ UNCHANGED <<sessions, started, history, history_file, clock>>
    /\ UNCHANGED <<data_vars, upload_vars>>

\* The entries of the logs displayed: one of every date, without a title
\* and with a title, and one without the key 'analysis_date'.
RetrievalEntries ==
    {[OldEntry EXCEPT !.id = t, !.created_at = t, !.analysis_date = DateOf(t),
                      !.custom_title = title] :
        t \in 0..MaxClock, title \in {None, "t1"}}
    \cup {[OldEntry EXCEPT !.analysis_date = NoDate]}

RetrievalInit ==
    /\ plan_df = NoneDf
    /\ actual_df = NoneDf
    /\ selected_provinces = {}
    /\ selected_cities = {}
    /\ filter_applied = FALSE
    /\ analysis_result = NoneResult
    /\ checkin_result = NoneResult
    /\ normalized = FALSE
    /\ NoUploads
    /\ sessions = {"s1"}
    /\ started = {"s1"}
    /\ \E log \in SeqsUpTo(RetrievalEntries, MaxHistory + 1) :
          /\ history = [s \in Sessions |-> IF s = "s1" THEN log ELSE <<>>]
          /\ history_file = json_dump(log)
    /\ clock = MaxClock
    /\ last_run = NoRun
    /\ filtered_history_sorted = <<>>

RetrievalNext ==
    \E mode \in TimeModes : \E selected \in Selectable(mode, clock) :
        RenderHistoryPage("s1", mode, selected)

SpecRetrieval == RetrievalInit /\ [][RetrievalNext]_vars

\* The sessions open and record; no entry is deleted.
SharedNext ==
    \/ \E s \in sessions : InitSessionState(s)
    \/ \E s \in sessions, result \in HistoryResults : SaveToHistory(s, result)
    \/ Tick

\* One session or two sessions use the history file.
SpecShared == HistoryInitFor({{"s1"}, {"s1", "s2"}}) /\ [][SharedNext]_vars

----------------------------------------------------------------------------
(* Reconciliation of normalized tables under every filter                  *)

Ids == {"o1", "o2"}

\* The rows of the input tables: two orders in cities of the same name of
\* two provinces, the first order again in a second city, a row without an
\* order id and a row without a city.
ReconRows ==
    {Row("o1", "A", <<"x">>, NaT, NaT, NaT),
     Row("o2", "B", <<"x">>, NaT, NaT, NaT),
     Row("o1", "A", <<"y">>, NaT, NaT, NaT),
     Row(None, "A", <<"x">>, NaT, NaT, NaT),
     Row("o2", "A", NaN, NaT, NaT, NaT)}

PlanCols == {"gongdanhao", "shengfen", "chengshi", "chuangjian_shijian"}

ActualCols == {"gongdanhao", "shengfen", "chengshi", "wangong_shijian"}

ReconInit ==
    /\ plan_df \in {[cols |-> PlanCols, rows |-> rs] : rs \in SeqsUpTo(ReconRows, MaxRows)}
    /\ actual_df \in {[cols |-> ActualCols, rows |-> rs] : rs \in SeqsUpTo(ReconRows, MaxRows)}
    /\ selected_provinces = {}
    /\ selected_cities = {}
    /\ filter_applied = FALSE
    /\ analysis_result = NoneResult
    /\ checkin_result = NoneResult
    /\ normalized = TRUE
    /\ NoUploads
    /\ NoHistory

\* The filter button of the analysis page: the selection is stored and the
\* stored tables are analysed under it.  Each input is analysed once.
ApplyFilter(provinces, cities) ==
    /\ filter_applied = FALSE
    /\ selected_provinces' = provinces
    /\ selected_cities' = cities
    /\ filter_applied' = TRUE
    /\ analysis_result' \in analyze_data_by_region(plan_df, actual_df, provinces, cities)
    /\ UNCHANGED <<plan_df, actual_df, checkin_result, normalized>>
    /\ UNCHANGED <<history_vars, upload_vars>>

\* The selections of the filter: none, one value, several values.
ProvinceFilters == {{}, {"A"}, {"A", "B"}}

CityFilters == {{}, {<<"x">>}, {<<"x">>, <<"y">>}}

ReconNext ==
    \E provinces \in ProvinceFilters, cities \in CityFilters :
        ApplyFilter(provinces, cities)

SpecRecon == ReconInit /\ [][ReconNext]_vars

----------------------------------------------------------------------------
(* Check-in validator: analyze_checkin                                     *)

checkin_required_cols == <<"yuyue_kaishi", "yuyue_jieshu", "qiandao_shijian">>

\* The conversion without the coercion: the value stays as it is.
ToDatetimeKeep(t) == t

\* pd.to_datetime(cell, errors='coerce'): a value that does not parse is NaT.
ToDatetime(t) == IF t = Unparseable THEN NaT ELSE t

\* The three time columns of a row converted to time stamps.
ParseTimes(r) ==
    [r EXCEPT !.yuyue_kaishi = ToDatetime(@),
              !.yuyue_jieshu = ToDatetime(@),
              !.qiandao_shijian = ToDatetime(@)]

\* The status with the end of the appointment window excluded.
CheckinStatusStrictEnd(r) ==
    IF /\ r.yuyue_kaishi # NaT
       /\ r.yuyue_jieshu # NaT
       /\ r.yuyue_kaishi <= r.qiandao_shijian
       /\ r.qiandao_shijian < r.yuyue_jieshu
    THEN "youxiao" ELSE "wuxiao"

\* The lambda that fills the column 签到状态: "youxiao" is 有效 (valid) and
\* "wuxiao" is 无效 (invalid).
CheckinStatus(r) ==
    IF /\ r.yuyue_kaishi # NaT
       /\ r.yuyue_jieshu # NaT
       /\ r.yuyue_kaishi <= r.qiandao_shijian
       /\ r.qiandao_shijian <= r.yuyue_jieshu
    THEN "youxiao" ELSE "wuxiao"

\* A row of valid_df: the parsed row and its status.
WithStatus(r) ==
    [gongdanhao |-> r.gongdanhao, shengfen |-> r.shengfen, chengshi |-> r.chengshi,
     yuyue_kaishi |-> r.yuyue_kaishi, yuyue_jieshu |-> r.yuyue_jieshu,
     qiandao_shijian |-> r.qiandao_shijian, qiandao_zhuangtai |-> CheckinStatus(r)]

analyze_checkin(a) ==
    IF a = NoneDf THEN NoneResult
    ELSE
      LET missing_cols == SelectSeq(checkin_required_cols, LAMBDA c : c \notin a.cols)
      IN IF missing_cols # <<>>
         THEN [available |-> FALSE, missing_cols |-> missing_cols,
               message |-> <<"missing", missing_cols>>]
         ELSE
           LET df == [i \in DOMAIN a.rows |-> ParseTimes(a.rows[i])]
               kept == SelectSeq(df, LAMBDA r : r.qiandao_shijian # NaT)
               valid_df == [i \in DOMAIN kept |-> WithStatus(kept[i])]
               valid_count ==
                   Len(SelectSeq(valid_df, LAMBDA r : r.qiandao_zhuangtai = "youxiao"))
               invalid_count ==
                   Len(SelectSeq(valid_df, LAMBDA r : r.qiandao_zhuangtai = "wuxiao"))
           IN IF Len(kept) = 0
              THEN [available |-> TRUE, valid_count |-> 0, invalid_count |-> 0,
                    excluded_count |-> Len(df) - Len(kept),
                    compliance_rate |-> [num |-> 0, den |-> 1],
                    details |-> <<>>, message |-> <<"all_empty">>]
              ELSE [available |-> TRUE, valid_count |-> valid_count,
                    invalid_count |-> invalid_count,
                    excluded_count |-> Len(df) - Len(valid_df),
                    compliance_rate |-> Rate(valid_count, Len(valid_df)),
                    details |-> valid_df, message |-> <<>>]

\* The time cells of the input rows: time stamps are positive numbers.  A
\* window starts at 1 or 2 and ends at 2 or 3, and a check-in time lies
\* before, in or after it.
StartCells == {NaT, Unparseable, 1, 2}

EndCells == {NaT, Unparseable, 2, 3}

CheckinCells == {NaT, Unparseable, 1, 2, 3}

CheckinRows ==
    {Row("o1", "A", <<"x">>, t0, t1, tc) :
        t0 \in StartCells, t1 \in EndCells, tc \in CheckinCells}

CheckinCols ==
    ActualCols \cup {"yuyue_kaishi", "yuyue_jieshu", "qiandao_shijian"}

CheckinInit ==
    /\ plan_df = NoneDf
    /\ actual_df \in {[cols |-> CheckinCols, rows |-> rs] :
                        rs \in SeqsUpTo(CheckinRows, MaxRows)}
    /\ selected_provinces = {}
    /\ selected_cities = {}
    /\ filter_applied = FALSE
    /\ analysis_result = NoneResult
    /\ checkin_result = NoneResult
    /\ normalized = TRUE
    /\ NoUploads
    /\ NoHistory

\* The check-in page analyses the Actual table.  Each input is analysed once.
RunCheckin ==
    /\ checkin_result = NoneResult
    /\ checkin_result' = analyze_checkin(actual_df)
    /\ UNCHANGED <<plan_df, actual_df, selected_provinces, selected_cities,
                   filter_applied, analysis_result, normalized>>
    /\ UNCHANGED <<history_vars, upload_vars>>

CheckinNext == RunCheckin

SpecCheckin == CheckinInit /\ [][CheckinNext]_vars

\* The rows of the tables analysed with and without the check-in columns: a
\* valid check-in, no check-in time and a check-in time that does not parse.
CheckinColsRows ==
    {Row("o1", "A", <<"x">>, 1, 2, tc) : tc \in {2, NaT, Unparseable}}

\* The Actual table has any of the three check-in columns or none.
CheckinColsInit ==
    /\ plan_df = NoneDf
    /\ actual_df \in {[cols |-> ActualCols \cup present, rows |-> rs] :
                        present \in SUBSET {"yuyue_kaishi", "yuyue_jieshu", "qiandao_shijian"},
                        rs \in SeqsUpTo(CheckinColsRows, MaxRows)}
    /\ selected_provinces = {}
    /\ selected_cities = {}
    /\ filter_applied = FALSE
    /\ analysis_result = NoneResult
    /\ checkin_result = NoneResult
    /\ normalized = TRUE
    /\ NoUploads
    /\ NoHistory

SpecCheckinCols == CheckinColsInit /\ [][CheckinNext]_vars

----------------------------------------------------------------------------
(* Normalization of raw tables, repeated                                   *)

Chars == {"x", "shi", "nl"}

RawCityCells == SeqsUpTo(Chars, MaxCityLen) \cup {NaN}

RawRows == {Row("o1", "A", city, NaT, NaT, NaT) : city \in RawCityCells}

\* The column layouts of the uploaded files: the documented raw layout and
\* the canonical one.
RawPlanLayouts ==
    {{"gongdanhao", "sheng", "shi", "laidan_shijian", "yuyue_wangong"}, PlanCols}

RawActualLayouts ==
    {{"gongdanhao", "sheng", "shi", "wangong_shijian"}, ActualCols}

\* The two uploaded files hold the same rows; their layouts are independent.
NormInit ==
    /\ \E rs \in SeqsUpTo(RawRows, MaxRows) :
          /\ plan_df \in {[cols |-> cs, rows |-> rs] : cs \in RawPlanLayouts}
          /\ actual_df \in {[cols |-> cs, rows |-> rs] : cs \in RawActualLayouts}
    /\ selected_provinces = {}
    /\ selected_cities = {}
    /\ filter_applied = FALSE
    /\ analysis_result = NoneResult
    /\ checkin_result = NoneResult
    /\ normalized = FALSE
    /\ NoUploads
    /\ NoHistory

\* validate_and_process_data applied to the tables, which take its result.
Normalize ==
    /\ ~ValidateRaises(plan_df, actual_df)
    /\ plan_df' = validate_and_process_data(plan_df, actual_df)[1]
    /\ actual_df' = validate_and_process_data(plan_df, actual_df)[2]
    /\ normalized' = TRUE
    /\ UNCHANGED <<selected_provinces, selected_cities, filter_applied,
                   analysis_result, checkin_result>>
    /\ UNCHANGED <<history_vars, upload_vars>>

\* The analysis page cleans the city names of the stored tables when it
\* renders.
RenderCleanCity ==
    /\ normalized
    /\ ~StrAccessorRaises(plan_df)
    /\ ~StrAccessorRaises(actual_df)
    /\ plan_df' = CleanCity(plan_df)
    /\ actual_df' = CleanCity(actual_df)
    /\ UNCHANGED <<selected_provinces, selected_cities, filter_applied,
                   analysis_result, checkin_result, normalized>>
    /\ UNCHANGED <<history_vars, upload_vars>>

NormNext == Normalize \/ RenderCleanCity

SpecNorm == NormInit /\ [][NormNext]_vars

----------------------------------------------------------------------------
(* The import page of a session: the two uploaders and the button 开始分析 *)

\* The rows of the uploaded Planned files and Actual files: the second order
\* is planned in one region and completed in another.
PlanFileRows ==
    <<Row("o1", "A", <<"x", "shi">>, NaT, NaT, NaT),
      Row("o2", "B", <<"y">>, NaT, NaT, NaT)>>

ActualFileRows ==
    <<Row("o1", "A", <<"x", "shi">>, NaT, NaT, NaT),
      Row("o2", "A", <<"x">>, NaT, NaT, NaT)>>

\* The rows of a file whose city cells are all empty.
BlankCityRows == <<Row("o1", "A", NaN, NaT, NaT, NaT)>>

\* The Planned files: every subset of the four columns, the documented raw
\* layout, and a file with an empty city column.
PlanFiles ==
    {[cols |-> cs, rows |-> PlanFileRows] : cs \in SUBSET PlanCols}
    \cup {[cols |-> cs, rows |-> PlanFileRows] : cs \in RawPlanLayouts}
    \cup {[cols |-> PlanCols, rows |-> BlankCityRows]}

\* The Actual files: every subset of the four required columns, the
\* documented raw layout, and a file with an empty city column.
ActualFiles ==
    {[cols |-> cs, rows |-> ActualFileRows] : cs \in SUBSET ActualCols}
    \cup {[cols |-> cs, rows |-> ActualFileRows] : cs \in RawActualLayouts}
    \cup {[cols |-> ActualCols, rows |-> BlankCityRows]}

\* "if plan_file:" at the start of a run of the import page: the table of a
\* file that is in the uploader is read again and stored.
Reread(file, df) == IF file # NoneDf THEN file ELSE df

\* plan_df['省份'].dropna().unique(): the provinces in the order of their
\* first rows.
Provinces(df) ==
    LET named == SelectSeq(df.rows, LAMBDA r : r.shengfen # None)
    IN [i \in DOMAIN named |-> named[i].shengfen]

\* The selection left as it was.
DefaultProvincesKept(p, selected) == selected

\* The default selection: the first province of the Planned table, when it
\* has the column and a province; else the selection stays.
DefaultProvinces(p, selected) ==
    IF "shengfen" \in p.cols /\ Len(Provinces(p)) > 0
    THEN {Provinces(p)[1]} ELSE selected

\* A file is put into the uploader of the Planned table: the run reads the
\* files of both uploaders into the session and resets the selection.
UploadPlan(s, file) ==
    /\ s \in started
    /\ plan_file' = file
    /\ plan_df' = file
    /\ actual_df' = Reread(actual_file, actual_df)
    /\ selected_provinces' = {}
    /\ selected_cities' = {}
    /\ filter_applied' = FALSE
    /\ last_run' = [NoRun EXCEPT !.session = s, !.widget = "plan_file"]
    /\ UNCHANGED <<actual_file, analysis_result, checkin_result, normalized>>
    /\ UNCHANGED <<sessions, started, history, history_file, clock,
                   filtered_history_sorted>>

\* A file is put into the uploader of the Actual table.
UploadActual(s, file) ==
    /\ s \in started
    /\ actual_file' = file
    /\ actual_df' = file
    /\ plan_df' = Reread(plan_file, plan_df)
    /\ selected_provinces' = {}
    /\ selected_cities' = {}
    /\ filter_applied' = FALSE
    /\ last_run' = [NoRun EXCEPT !.session = s, !.widget = "actual_file"]
    /\ UNCHANGED <<plan_file, analysis_result, checkin_result, normalized>>
    /\ UNCHANGED <<sessions, started, history, history_file, clock,
                   filtered_history_sorted>>

\* Another page is rendered: the uploaders are not on it and lose their
\* files; the session keeps its tables.
LeaveImportPage(s) ==
    /\ s \in started
    /\ plan_file # NoneDf \/ actual_file # NoneDf
    /\ plan_file' = NoneDf
    /\ actual_file' = NoneDf
    /\ last_run' = [NoRun EXCEPT !.session = s, !.widget = "page"]
    /\ UNCHANGED data_vars
    /\ UNCHANGED <<sessions, started, history, history_file, clock,
                   filtered_history_sorted>>

\* The button 开始分析.  The run first reads the files of the uploaders
\* again, as every run of the import page does.  Then, with both tables in
\* the session: validate_and_process_data raises, or returns errors, which
\* are shown, or returns the tables, which are stored; the default selection
\* is stored; analyze_data_by_region raises, or returns the result, which is
\* stored and recorded in the history.
ClickAnalyze(s) ==
    LET p0 == Reread(plan_file, plan_df)
        a0 == Reread(actual_file, actual_df)
        reset == plan_file # NoneDf \/ actual_file # NoneDf
        provinces0 == IF reset THEN {} ELSE selected_provinces
        cities0 == IF reset THEN {} ELSE selected_cities
        applied0 == IF reset THEN FALSE ELSE filter_applied
        run == [NoRun EXCEPT !.session = s, !.widget = "analyze"]
        aborted(shown, errors) ==
            /\ plan_df' = p0
            /\ actual_df' = a0
            /\ selected_provinces' = provinces0
            /\ selected_cities' = cities0
            /\ filter_applied' = applied0
            /\ last_run' = [run EXCEPT !.shown = shown, !.errors = errors]
            /\ UNCHANGED <<analysis_result, normalized, history, history_file>>
    IN
    /\ s \in started
    /\ Len(history[s]) < MaxHistory
    /\ UNCHANGED <<plan_file, actual_file, checkin_result, sessions, started,
                   clock, filtered_history_sorted>>
    /\ IF p0 = NoneDf \/ a0 = NoneDf THEN aborted("warning", <<>>)
       ELSE IF ValidateRaises(p0, a0) THEN aborted("exception", <<>>)
       ELSE
         LET v == validate_and_process_data(p0, a0)
             provinces1 == DefaultProvinces(v[1], provinces0)
         IN IF v[3] # <<>> THEN aborted("error", v[3])
            ELSE
              /\ plan_df' = v[1]
              /\ actual_df' = v[2]
              /\ normalized' = TRUE
              /\ selected_provinces' = provinces1
              /\ selected_cities' = {}
              /\ filter_applied' = TRUE
              /\ \E result \in analyze_data_by_region(v[1], v[2], provinces1, {}) :
                    IF result = KeyError
                    THEN /\ last_run' = [run EXCEPT !.shown = "exception"]
                         /\ UNCHANGED <<analysis_result, history, history_file>>
                    ELSE /\ analysis_result' = result
                         /\ history' = [history EXCEPT ![s] =
                                           save_to_history(@, result, clock)]
                         /\ history_file' = IF result = NoneResult THEN history_file
                                            ELSE save_history(history'[s])
                         /\ last_run' = [run EXCEPT !.shown = "success"]

Init ==
    /\ plan_df = NoneDf
    /\ actual_df = NoneDf
    /\ selected_provinces = {}
    /\ selected_cities = {}
    /\ filter_applied = FALSE
    /\ analysis_result = NoneResult
    /\ checkin_result = NoneResult
    /\ normalized = FALSE
    /\ NoUploads
    /\ sessions = {"s1"}
    /\ started = {}
    /\ history = [s \in Sessions |-> <<>>]
    /\ history_file \in {NoFile, json_dump(<<OldEntry>>)}
    /\ clock = 1
    /\ last_run = NoRun
    /\ filtered_history_sorted = <<>>

Next ==
    \/ \E s \in sessions : InitSessionState(s)
    \/ \E s \in sessions, file \in PlanFiles : UploadPlan(s, file)
    \/ \E s \in sessions, file \in ActualFiles : UploadActual(s, file)
    \/ \E s \in sessions : ClickAnalyze(s)
    \/ \E s \in sessions : LeaveImportPage(s)

Spec == Init /\ [][Next]_vars

----------------------------------------------------------------------------
(* The analysis page of a session: the two multiselects and the button 筛选 *)

\* The rows of the Planned file and of the Actual file of a day: the first
\* Planned row has no province, the provinces A and B follow; an order
\* planned in B is completed in A and an order of B was never planned.
SnapshotPlanRows ==
    <<Row("o3", None, <<"z">>, NaT, NaT, NaT),
      Row("o1", "A", <<"x", "shi">>, NaT, NaT, NaT),
      Row("o2", "B", <<"y">>, NaT, NaT, NaT)>>

SnapshotActualRows ==
    <<Row("o1", "A", <<"x", "shi">>, NaT, NaT, NaT),
      Row("o2", "A", <<"x">>, NaT, NaT, NaT),
      Row("o4", "B", <<"y">>, NaT, NaT, NaT)>>

\* The Planned files: the canonical and the documented raw layout, a file
\* without the province column, a file whose rows name no province and a
\* file with an empty city column.
SnapshotPlanFiles ==
    {[cols |-> cs, rows |-> SnapshotPlanRows] : cs \in RawPlanLayouts}
    \cup {[cols |-> PlanCols \ {"shengfen"}, rows |-> SnapshotPlanRows]}
    \cup {[cols |-> PlanCols, rows |-> SubSeq(SnapshotPlanRows, 1, 1)]}
    \cup {[cols |-> PlanCols, rows |-> BlankCityRows]}

\* The Actual files: the two layouts and a file with an empty city column.
SnapshotActualFiles ==
    {[cols |-> cs, rows |-> SnapshotActualRows] : cs \in RawActualLayouts}
    \cup {[cols |-> ActualCols, rows |-> BlankCityRows]}

\* The options of the province multiselect.
ProvinceOptions(p) ==
    IF "shengfen" \in p.cols
    THEN {Provinces(p)[i] : i \in DOMAIN Provinces(p)} ELSE {}

\* plan_df['城市'].dropna().unique(), an empty list without the column.
AllCityOptions(p) ==
    IF "chengshi" \in p.cols
    THEN {p.rows[i].chengshi : i \in DOMAIN p.rows} \ {NaN} ELSE {}

\* The options of the city multiselect: the cities of the selected
\* provinces, all cities when no province is selected.
AvailableCities(p, provinces) ==
    IF provinces # {}
    THEN {p.rows[i].chengshi :
            i \in {j \in DOMAIN p.rows : p.rows[j].shengfen \in provinces}} \ {NaN}
    ELSE AllCityOptions(p)

\* The analysis page is opened.  The uploaders are not on it and lose their
\* files.  Without a stored result the page shows a notice and ends.  With
\* one it cleans the city names of the stored tables in place, the Planned
\* table first, which raises on a column without a string; then it renders
\* the province multiselect with the first province selected, and the city
\* multiselect, whose options are read from the city column without a guard.
OpenAnalysisPage(s) ==
    LET run == [NoRun EXCEPT !.session = s, !.widget = "analysis_page"]
    IN
    /\ s \in started
    /\ plan_file' = NoneDf
    /\ actual_file' = NoneDf
    /\ UNCHANGED <<selected_provinces, selected_cities, filter_applied,
                   analysis_result, checkin_result, normalized>>
    /\ UNCHANGED <<sessions, started, history, history_file, clock,
                   filtered_history_sorted>>
    /\ IF analysis_result = NoneResult \/ plan_df = NoneDf \/ actual_df = NoneDf
       THEN /\ last_run' = [run EXCEPT !.shown = "empty"]
            /\ UNCHANGED <<plan_df, actual_df>>
       ELSE IF StrAccessorRaises(plan_df)
       THEN /\ last_run' = [run EXCEPT !.shown = "strip_exception"]
            /\ UNCHANGED <<plan_df, actual_df>>
       ELSE IF StrAccessorRaises(actual_df)
       THEN /\ last_run' = [run EXCEPT !.shown = "strip_exception"]
            /\ plan_df' = CleanCity(plan_df)
            /\ UNCHANGED actual_df
       ELSE /\ plan_df' = CleanCity(plan_df)
            /\ actual_df' = CleanCity(actual_df)
            /\ last_run' = [run EXCEPT !.shown =
                               IF ProvinceOptions(plan_df) # {}
                                  /\ "chengshi" \notin plan_df.cols
                               THEN "cities_exception" ELSE "page"]

\* The button 筛选, clicked with the values of the two multiselects.  The
\* button is on the page when the run before rendered the multiselects and
\* the city options of the selected provinces can be read.  The run cleans
\* the city names again, stores the selection, analyses the stored tables
\* under it and stores the result; an analysis that raises stores none.
ClickFilter(s, provinces, cities) ==
    LET p1 == CleanCity(plan_df)
        a1 == CleanCity(actual_df)
        run == [NoRun EXCEPT !.session = s, !.widget = "filter"]
    IN
    /\ s \in started
    /\ last_run.session = s
    /\ last_run.widget \in {"analysis_page", "filter"}
    /\ last_run.shown \in {"page", "cities_exception", "filtered", "exception"}
    /\ provinces \subseteq ProvinceOptions(p1)
    /\ ~(provinces # {} /\ "chengshi" \notin p1.cols)
    /\ cities \subseteq AvailableCities(p1, provinces)
    /\ plan_df' = p1
    /\ actual_df' = a1
    /\ selected_provinces' = provinces
    /\ selected_cities' = cities
    /\ filter_applied' = TRUE
    /\ \E result \in analyze_data_by_region(p1, a1, provinces, cities) :
          IF result = KeyError
          THEN /\ last_run' = [run EXCEPT !.shown = "exception"]
               /\ UNCHANGED analysis_result
          ELSE /\ analysis_result' = result
               /\ last_run' = [run EXCEPT !.shown = "filtered"]
    /\ UNCHANGED <<checkin_result, normalized, plan_file, actual_file>>
    /\ UNCHANGED <<sessions, started, history, history_file, clock,
                   filtered_history_sorted>>

\* The values that the multiselects can hold: every selection of provinces;
\* no city, one city, two cities.
SnapshotProvinces == SUBSET {"A", "B"}

SnapshotCities == {{}, {<<"x">>}, {<<"y">>}, {<<"x">>, <<"z">>}}

\* A session that imports files, analyses them, opens the analysis page and
\* filters there, any number of times.
SnapshotNext ==
    \/ \E s \in sessions : InitSessionState(s)
    \/ \E s \in sessions, file \in SnapshotPlanFiles : UploadPlan(s, file)
    \/ \E s \in sessions, file \in SnapshotActualFiles : UploadActual(s, file)
    \/ \E s \in sessions : ClickAnalyze(s)
    \/ \E s \in sessions : OpenAnalysisPage(s)
    \/ \E s \in sessions, provinces \in SnapshotProvinces, cities \in SnapshotCities :
          ClickFilter(s, provinces, cities)

SpecSnapshot == Init /\ [][SnapshotNext]_vars

----------------------------------------------------------------------------
(* Properties of the reconciliation, stated on the stored tables, the      *)
(* stored selection and the stored result                                  *)

\* analyze_data_by_region has returned a result for the stored selection.
Analysed == filter_applied /\ analysis_result \notin {NoneResult, KeyError}

\* A row passes the stored selection.
Keep(r) ==
    /\ selected_provinces = {} \/ r.shengfen \in selected_provinces
    /\ selected_cities = {} \/ r.chengshi \in selected_cities

KeptPlan == SelectSeq(plan_df.rows, Keep)

KeptActual == SelectSeq(actual_df.rows, Keep)

\* The order ids that occur in the rows.
IdsOf(rows) == {id \in Ids : \E i \in DOMAIN rows : rows[i].gongdanhao = id}

\* P and A: the planned and the actual order ids under the selection.
P == IdsOf(KeptPlan)

A == IdsOf(KeptActual)

RegionRows ==
    {analysis_result.region_stats[i] : i \in DOMAIN analysis_result.region_stats}

PlannedSum == SumOver([rr \in RegionRows |-> rr.plan_count], RegionRows)

\* The non-null cities under which an order id is planned.
PlanCitiesOf(id) ==
    {KeptPlan[i].chengshi : i \in {j \in DOMAIN KeptPlan : KeptPlan[j].gongdanhao = id}}
        \ {NaN}

\* C1: the actual ids are split into on_time = P \cap A and modified = A \ P,
\* so today_completed = on_time + modified = total_actual = |A|.
C1_Classification ==
    Analysed =>
        LET p == P
            a == A
        IN
        /\ analysis_result.on_time = Cardinality(p \cap a)
        /\ analysis_result.modified = Cardinality(a \ p)
        /\ analysis_result.today_completed =
               analysis_result.on_time + analysis_result.modified
        /\ analysis_result.today_completed = analysis_result.total_actual
        /\ analysis_result.total_actual = Cardinality(a)

C1_Witness ==
    /\ Analysed
    /\ selected_provinces # {}
    /\ P \cap A # {}
    /\ A \ P # {}
    /\ analysis_result.total_plan = 1
    /\ analysis_result.on_time = 1
    /\ analysis_result.modified = 1

\* C2 as stated: the completion rate lies in [0, 100] and is 0 when P is
\* empty, the completed count then still being |A|.
C2_RateWithin100 ==
    Analysed =>
        /\ 0 <= analysis_result.completion_rate.num
        /\ analysis_result.completion_rate.num <= 100 * analysis_result.completion_rate.den
        /\ P = {} => /\ analysis_result.completion_rate.num = 0
                     /\ analysis_result.today_completed = Cardinality(A)

\* C2 amended: the completion rate is |A| / |P| * 100 when P is not empty,
\* which is never negative and is at most 100 exactly when |A| <= |P|; it is
\* 0 when P is empty, the completed count then still being |A|.
C2_RateRange ==
    Analysed =>
        LET rate == analysis_result.completion_rate
            planned == Cardinality(P)
            actual == Cardinality(A)
        IN
        /\ rate.den > 0
        /\ rate.num >= 0
        /\ planned > 0 => /\ rate.num * planned = 100 * actual * rate.den
                          /\ (rate.num <= 100 * rate.den) <=> (actual <= planned)
        /\ planned = 0 => /\ rate.num = 0
                          /\ analysis_result.today_completed = actual

C2_Witness ==
    /\ Analysed
    /\ P = {}
    /\ Cardinality(A) = 2
    /\ analysis_result.completion_rate.num = 0
    /\ analysis_result.today_completed = 2

\* C3 as stated: the planned counts of the region rows add up to |P|.
C3_PlannedSumIsTotal == Analysed => PlannedSum = analysis_result.total_plan

\* C3 amended: the planned counts of the region rows add up to the number of
\* (order id, non-null city) pairs of the planned rows, which is |P| when
\* every planned id has exactly one non-null city.
C3_PlannedSum ==
    Analysed =>
        LET p == P
            sum == PlannedSum
            cities == [id \in p |-> Cardinality(PlanCitiesOf(id))]
        IN
        /\ sum = SumOver(cities, p)
        /\ (\A id \in p : cities[id] = 1) => sum = Cardinality(p)

C3_Witness ==
    /\ Analysed
    /\ Cardinality(P) = 2
    /\ \A id \in P : Cardinality(PlanCitiesOf(id)) = 1
    /\ Cardinality(RegionRows) = 2
    /\ \A rr \in RegionRows : rr.plan_count = 1
    /\ PlannedSum = 2

\* C7: an empty filter restricts nothing and a non-empty filter keeps, in
\* each table on its own, the rows whose province and city are selected.
C7_FilterSemantics ==
    Analysed =>
        LET kp == KeptPlan
            ka == KeptActual
        IN
        /\ analysis_result.total_plan = Cardinality(IdsOf(kp))
        /\ analysis_result.total_actual = Cardinality(IdsOf(ka))
        /\ {rr.chengshi : rr \in RegionRows} =
               ({kp[i].chengshi : i \in DOMAIN kp}
                   \cup {ka[i].chengshi : i \in DOMAIN ka}) \ {NaN}

\* Both filters are set, and an order id is kept in the Planned table while
\* its row in the Actual table is filtered out.
C7_Witness ==
    /\ Analysed
    /\ selected_provinces # {}
    /\ selected_cities # {}
    /\ \E i \in DOMAIN plan_df.rows, j \in DOMAIN actual_df.rows :
          /\ plan_df.rows[i].gongdanhao # None
          /\ plan_df.rows[i].gongdanhao = actual_df.rows[j].gongdanhao
          /\ Keep(plan_df.rows[i])
          /\ ~Keep(actual_df.rows[j])
    /\ analysis_result.total_plan = 1
    /\ analysis_result.total_actual = 0

\* The rows with a non-null order id, a row equal to an earlier row removed.
Distinct(rows) ==
    LET keep == {i \in DOMAIN rows :
                    /\ rows[i].gongdanhao # None
                    /\ \A j \in DOMAIN rows : j < i => rows[j] # rows[i]}
        f[i \in 0..Len(rows)] ==
            IF i = 0 THEN <<>>
            ELSE IF i \in keep THEN Append(f[i - 1], rows[i]) ELSE f[i - 1]
    IN f[Len(rows)]

\* The counts of a region row.
Counts(rr) == <<rr.plan_count, rr.on_time_count, rr.modified_count>>

\* C8: the counts are those of the tables without their duplicate rows and
\* without the rows whose order id is null; a city left without rows counts 0.
C8_SetSemantics ==
    Analysed =>
        LET plan == [plan_df EXCEPT !.rows = Distinct(@)]
            actual == [actual_df EXCEPT !.rows = Distinct(@)]
            rows == RegionRows
        IN
        \A clean \in analyze_data_by_region(plan, actual,
                                             selected_provinces, selected_cities) :
            /\ analysis_result.total_plan = clean.total_plan
            /\ analysis_result.total_actual = clean.total_actual
            /\ analysis_result.on_time = clean.on_time
            /\ analysis_result.modified = clean.modified
            /\ analysis_result.total_plan <= Len(plan.rows)
            /\ \A rr \in rows :
                  LET same == {clean.region_stats[i] : i \in
                                  {j \in DOMAIN clean.region_stats :
                                      clean.region_stats[j].chengshi = rr.chengshi}}
                  IN IF same = {} THEN Counts(rr) = <<0, 0, 0>>
                     ELSE \A cc \in same : Counts(rr) = Counts(cc)

\* The Planned table has the same row twice and a row without an order id.
C8_Witness ==
    /\ Analysed
    /\ Len(KeptPlan) = 2
    /\ KeptPlan[1] = KeptPlan[2]
    /\ KeptPlan[1].gongdanhao # None
    /\ Len(KeptActual) = 2
    /\ KeptActual[1].gongdanhao = None
    /\ KeptActual[2].gongdanhao = KeptPlan[1].gongdanhao
    /\ analysis_result.total_plan = 1
    /\ analysis_result.on_time = 1
    /\ analysis_result.modified = 0

KeptRows ==
    {KeptPlan[i] : i \in DOMAIN KeptPlan} \cup {KeptActual[i] : i \in DOMAIN KeptActual}

\* Every row under the selection has a province and a city, so that its
\* region is a (province, city) pair.
RegionsComplete == \A r \in KeptRows : r.shengfen # None /\ r.chengshi # NaN

\* The (province, city) pairs of the rows under the selection.
RegionKeys == {<<r.shengfen, r.chengshi>> : r \in KeptRows}

\* C9: the region breakdown has exactly one row for each (province, city)
\* pair of the Planned or the Actual table, so a city name that occurs in two
\* provinces has two rows.
C9_OneRowPerRegion ==
    (Analysed /\ RegionsComplete) =>
        /\ {<<rr.shengfen, rr.chengshi>> : rr \in RegionRows} = RegionKeys
        /\ Len(analysis_result.region_stats) = Cardinality(RegionKeys)

\* The rows of the region of a region row.
InRegion(rows, rr) ==
    SelectSeq(rows, LAMBDA r : r.shengfen = rr.shengfen /\ r.chengshi = rr.chengshi)

\* C10: a region row is the reconciliation of the rows of its region, and
\* its rate is 0% when nothing is planned in the region.
C10_RegionReconciled ==
    (Analysed /\ RegionsComplete) =>
        \A rr \in RegionRows :
            LET P_r == IdsOf(InRegion(KeptPlan, rr))
                A_r == IdsOf(InRegion(KeptActual, rr))
                done == rr.on_time_count + rr.modified_count
            IN /\ rr.plan_count = Cardinality(P_r)
               /\ rr.on_time_count = Cardinality(P_r \cap A_r)
               /\ rr.modified_count = Cardinality(A_r \ P_r)
               /\ rr.plan_count = 0 => rr.wangonglv = 0
               /\ rr.plan_count > 0 =>
                     /\ 2 * (rr.wangonglv * rr.plan_count - 10000 * done) <= rr.plan_count
                     /\ 2 * (10000 * done - rr.wangonglv * rr.plan_count) <= rr.plan_count

\* An order id is in at most one row of each table under the selection, and
\* every row under the selection has a city.
OneRowPerId ==
    /\ \A i, j \in DOMAIN KeptPlan :
          (i # j /\ KeptPlan[i].gongdanhao # None) =>
              KeptPlan[i].gongdanhao # KeptPlan[j].gongdanhao
    /\ \A i, j \in DOMAIN KeptActual :
          (i # j /\ KeptActual[i].gongdanhao # None) =>
              KeptActual[i].gongdanhao # KeptActual[j].gongdanhao
    /\ \A r \in KeptRows : r.chengshi # NaN

\* The order ids whose city in the Planned table is not their city in the
\* Actual table.
Moved ==
    {id \in Ids : \E i \in DOMAIN KeptPlan, j \in DOMAIN KeptActual :
        /\ KeptPlan[i].gongdanhao = id
        /\ KeptActual[j].gongdanhao = id
        /\ KeptPlan[i].chengshi # KeptActual[j].chengshi}

\* C20: when an order id is in at most one row of each table and every row
\* has a city, the on-time and modified counts of the region rows add up to
\* the global completed count, and the on-time counts of the region rows add
\* up to at most the global on-time count, to exactly that count iff no
\* order id has one city in the Planned table and another in the Actual
\* table.
C20_RegionsConsistent ==
    (Analysed /\ OneRowPerId) =>
        LET rows == RegionRows
            done == SumOver([rr \in rows |-> rr.on_time_count + rr.modified_count], rows)
            on_time == SumOver([rr \in rows |-> rr.on_time_count], rows)
        IN /\ done = analysis_result.today_completed
           /\ on_time <= analysis_result.on_time
           /\ (on_time = analysis_result.on_time) <=> (Moved = {})

\* Two orders are planned and completed, one of them in another city than
\* planned: it is on time globally and modified in the city of its completion.
C20_Witness ==
    /\ Analysed
    /\ OneRowPerId
    /\ Cardinality(Moved) = 1
    /\ analysis_result.on_time = 2
    /\ analysis_result.modified = 0
    /\ SumOver([rr \in RegionRows |-> rr.on_time_count], RegionRows) = 1
    /\ SumOver([rr \in RegionRows |-> rr.modified_count], RegionRows) = 1

----------------------------------------------------------------------------
(* Properties of the history recorder                                      *)

\* The log that the file holds; no file holds no entry.
FileLog == IF history_file = NoFile THEN <<>> ELSE json_load(history_file)

\* The five scalars of a result.
StatsOf(result) ==
    [total_plan |-> result.total_plan, total_actual |-> result.total_actual,
     on_time |-> result.on_time, modified |-> result.modified,
     completion_rate |-> result.completion_rate]

\* C14: save_to_history(result) with a result that is not None puts exactly
\* one new entry at index 0 of the log, with custom_title null and the five
\* scalars of the result as stats, and leaves the earlier entries as they
\* were and in their order.
C14_RecordPrepends ==
    [][\A s \in Sessions, result \in HistoryResults \ {NoneResult} :
          SaveToHistory(s, result) =>
              /\ Len(history'[s]) = Len(history[s]) + 1
              /\ history'[s][1].custom_title = None
              /\ history'[s][1].stats = StatsOf(result)
              /\ \A i \in DOMAIN history[s] : history'[s][i + 1] = history[s][i]
              /\ \A t \in Sessions \ {s} : history'[t] = history[t]]_vars

\* A second entry has been recorded on top of an entry loaded from the file.
C14_Witness ==
    /\ last_run.widget = "record"
    /\ Len(history["s1"]) = 2
    /\ history["s1"][2] = OldEntry
    /\ history["s1"][1].custom_title = None
    /\ history["s1"][1].stats.total_actual = 2
    /\ history["s1"][1].stats.completion_rate = [num |-> 200, den |-> 1]

\* C15: in a single session the file holds the log of the session after
\* every operation: the same entries in the same order.
C15_FileIsLog ==
    \A s \in started :
        IF history_file = NoFile THEN history[s] = <<>>
        ELSE json_load(history_file) = history[s]

\* An entry has been recorded on top of a loaded entry and the loaded entry
\* has been deleted.
C15_Witness ==
    /\ last_run.widget = "delete"
    /\ Len(history["s1"]) = 1
    /\ history["s1"][1].id # 0
    /\ history_file = json_dump(history["s1"])
    /\ json_load(history_file) = history["s1"]

\* C16: no two entries of a log have the same id.
C16_UniqueIds ==
    \A s \in Sessions : \A i, j \in DOMAIN history[s] :
        i # j => history[s][i].id # history[s][j].id

\* The log without the entry at position i.
RemoveAt(log, i) == SubSeq(log, 1, i - 1) \o SubSeq(log, i + 1, Len(log))

\* C18: the title edit sets the custom_title of the entry it is clicked for
\* and the delete removes the entry it is clicked for; no other entry and no
\* order changes, and the file holds the changed log when the operation
\* returns.
C18_EditAndDeleteTargeted ==
    [][\A s \in Sessions :
          /\ \A new_title \in {"", "t1"} :
                ClickSaveTitle(s, new_title) =>
                    /\ history'[s] = [history[s] EXCEPT
                                         ![last_run.target].custom_title = new_title]
                    /\ history_file' = json_dump(history'[s])
          /\ \A mode \in TimeModes :
                \A selected \in Selectable(mode, clock), idx \in 1..MaxHistory :
                    ClickDelete(s, mode, selected, idx) =>
                        /\ history'[s] = RemoveAt(history[s],
                               SortedPositions(history[s], mode, selected)[idx])
                        /\ history_file' = json_dump(history'[s])]_vars

\* The history page has displayed the log of the session.
Retrieved == last_run.widget = "history"

\* The entry is of the date or of the month selected.
Matches(h) ==
    /\ h.analysis_date # NoDate
    /\ IF last_run.mode = "ri" THEN h.analysis_date = last_run.selected
       ELSE h.analysis_date[1] = last_run.selected

\* The number of positions of the log that hold the entry.
Count(log, h) == Cardinality({i \in DOMAIN log : log[i] = h})

\* C17: the history page displays exactly the entries of the selected date
\* (day mode) or of the selected year-month (month mode), every entry
\* without a custom_title before every entry with one, and the entries of
\* each of the two groups by descending analysis_date.
C17_Retrieval ==
    Retrieved =>
        LET log == history[last_run.session]
            out == filtered_history_sorted
        IN /\ \A h \in RetrievalEntries :
                 Count(out, h) = IF Matches(h) THEN Count(log, h) ELSE 0
           /\ \A i, j \in DOMAIN out :
                 i < j =>
                    /\ out[j].custom_title = None => out[i].custom_title = None
                    /\ (out[i].custom_title = None <=> out[j].custom_title = None) =>
                          \/ out[i].analysis_date[1] > out[j].analysis_date[1]
                          \/ /\ out[i].analysis_date[1] = out[j].analysis_date[1]
                             /\ out[i].analysis_date[2] >= out[j].analysis_date[2]

\* Three entries of the selected month, the first of the log with a title
\* and of the latest date: it is displayed last, after the two entries
\* without a title, of which the later is first.
C17_Witness ==
    /\ Retrieved
    /\ last_run.mode = "yue"
    /\ Len(history["s1"]) = 3
    /\ history["s1"][1].custom_title # None
    /\ Len(filtered_history_sorted) = 3
    /\ filtered_history_sorted[1].custom_title = None
    /\ filtered_history_sorted[2].custom_title = None
    /\ filtered_history_sorted[3] = history["s1"][1]
    /\ filtered_history_sorted[1].analysis_date[2] > filtered_history_sorted[2].analysis_date[2]
    /\ filtered_history_sorted[3].analysis_date[2] > filtered_history_sorted[2].analysis_date[2]

\* The log a is the end of the log b.
IsSuffix(a, b) ==
    /\ Len(a) <= Len(b)
    /\ SubSeq(b, Len(b) - Len(a) + 1, Len(b)) = a

\* C19: a record writes the log of its own session over the file, whatever
\* the file holds; with a single session the entries of the file stay in it
\* and the entry recorded is added to them.
C19_SingleSessionKeeps ==
    [][/\ \A s \in Sessions, result \in HistoryResults \ {NoneResult} :
             SaveToHistory(s, result) =>
                 history_file' = json_dump(<<history_item(result, clock)>> \o history[s])
       /\ sessions = {"s1"} =>
             IsSuffix(FileLog, IF history_file' = NoFile THEN <<>>
                               ELSE json_load(history_file'))]_vars

\* The lost update: two sessions have loaded the empty log, each has recorded
\* an entry, and the file holds the entry of the second session only.
C19_Witness ==
    /\ started = {"s1", "s2"}
    /\ Len(history["s1"]) = 1
    /\ Len(history["s2"]) = 1
    /\ history["s1"][1].id # 0
    /\ history["s2"][1].id # 0
    /\ history["s1"][1] # history["s2"][1]
    /\ history_file = json_dump(history["s2"])
    /\ \A i \in DOMAIN FileLog : FileLog[i] # history["s1"][1]

----------------------------------------------------------------------------
(* Properties of the normalizer                                            *)

\* C4: the normalization is idempotent: on tables that have been normalized,
\* validate_and_process_data and the city clean-up of the analysis page
\* change no cell.
C4_Idempotent ==
    normalized =>
        /\ validate_and_process_data(plan_df, actual_df)[1] = plan_df
        /\ validate_and_process_data(plan_df, actual_df)[2] = actual_df
        /\ CleanCity(plan_df) = plan_df
        /\ CleanCity(actual_df) = actual_df

----------------------------------------------------------------------------
(* Properties of the check-in validator                                    *)

\* analyze_checkin has returned the counts of the stored Actual table.
Checked == checkin_result # NoneResult /\ checkin_result.available

\* The cell holds a time stamp: it is not null and it parses.
IsTime(t) == t \notin {NaT, Unparseable}

\* The rows with a check-in time.
Considered == SelectSeq(actual_df.rows, LAMBDA r : IsTime(r.qiandao_shijian))

InWindow(r) ==
    /\ IsTime(r.yuyue_kaishi)
    /\ IsTime(r.yuyue_jieshu)
    /\ r.yuyue_kaishi <= r.qiandao_shijian
    /\ r.qiandao_shijian <= r.yuyue_jieshu

\* C5: a row with a check-in time is valid iff both appointment bounds are
\* present and appointment_start <= checkin_time <= appointment_end, and is
\* invalid otherwise; it is never excluded.
C5_WindowInclusive ==
    Checked =>
        /\ checkin_result.valid_count + checkin_result.invalid_count = Len(Considered)
        /\ checkin_result.valid_count = Len(SelectSeq(Considered, InWindow))
        /\ Len(Considered) > 0 =>
              /\ Len(checkin_result.details) = Len(Considered)
              /\ \A i \in DOMAIN Considered :
                    checkin_result.details[i].qiandao_zhuangtai =
                        IF InWindow(Considered[i]) THEN "youxiao" ELSE "wuxiao"

\* One row checks in at the end of its window and is valid, another has no
\* appointment end and is invalid.
C5_Witness ==
    /\ Checked
    /\ Len(checkin_result.details) = 2
    /\ \E i, j \in DOMAIN checkin_result.details :
          /\ checkin_result.details[i].qiandao_zhuangtai = "youxiao"
          /\ checkin_result.details[i].qiandao_shijian = checkin_result.details[i].yuyue_jieshu
          /\ checkin_result.details[i].yuyue_kaishi < checkin_result.details[i].yuyue_jieshu
          /\ checkin_result.details[j].qiandao_zhuangtai = "wuxiao"
          /\ checkin_result.details[j].yuyue_jieshu = NaT
          /\ checkin_result.details[j].yuyue_kaishi # NaT

\* C6: the rows without a check-in time are counted in excluded_count only:
\* the three counts add up to the number of rows, and the compliance rate is
\* valid / (valid + invalid) * 100, or 0 when no row has a check-in time.
C6_ExcludedOutside ==
    Checked =>
        LET considered_count == checkin_result.valid_count + checkin_result.invalid_count
            rate == checkin_result.compliance_rate
        IN /\ checkin_result.excluded_count =
                  Len(SelectSeq(actual_df.rows, LAMBDA r : ~IsTime(r.qiandao_shijian)))
           /\ considered_count + checkin_result.excluded_count = Len(actual_df.rows)
           /\ rate.den > 0
           /\ considered_count = 0 => rate.num = 0
           /\ considered_count > 0 =>
                 rate.num * considered_count = 100 * checkin_result.valid_count * rate.den

\* One row has a check-in time that does not parse, the other is valid: the
\* rate is 100%.
C6_Witness ==
    /\ Checked
    /\ \E i \in DOMAIN actual_df.rows : actual_df.rows[i].qiandao_shijian = Unparseable
    /\ checkin_result.excluded_count = 1
    /\ checkin_result.valid_count = 1
    /\ checkin_result.invalid_count = 0
    /\ checkin_result.compliance_rate = [num |-> 100, den |-> 1]

\* C13: analyze_checkin returns a result with available = false and a
\* reason when a check-in column is missing, naming exactly the missing
\* columns, and when no row has a check-in time that parses.
C13_Unavailable ==
    checkin_result # NoneResult =>
        LET missing == {c \in {"yuyue_kaishi", "yuyue_jieshu", "qiandao_shijian"} :
                           c \notin actual_df.cols}
        IN /\ missing # {} =>
                 /\ ~checkin_result.available
                 /\ checkin_result.message # <<>>
                 /\ {checkin_result.missing_cols[i] :
                        i \in DOMAIN checkin_result.missing_cols} = missing
                 /\ Len(checkin_result.missing_cols) = Cardinality(missing)
           /\ (missing = {} /\ Len(Considered) = 0) =>
                 /\ ~checkin_result.available
                 /\ checkin_result.message # <<>>

----------------------------------------------------------------------------
(* Properties of the import page                                           *)

\* The tables that a click on 开始分析 validates.
ClickedPlan == Reread(plan_file, plan_df)

ClickedActual == Reread(actual_file, actual_df)

\* Both tables are there and the Actual table lacks a required column.
ActualLacksRequired ==
    /\ ClickedPlan # NoneDf
    /\ ClickedActual # NoneDf
    /\ required_cols \ Rename(ClickedActual.cols, actual_rename_map) # {}

\* Both tables are there, the Actual table has the required columns and the
\* Planned table lacks a recommended column.
PlanLacksRecommended ==
    /\ ClickedPlan # NoneDf
    /\ ClickedActual # NoneDf
    /\ required_cols \ Rename(ClickedActual.cols, actual_rename_map) = {}
    /\ PlanCols \ Rename(ClickedPlan.cols, plan_rename_map) # {}

\* C11: when the Actual table lacks a required column, the click on 开始分析
\* shows a non-empty list of errors, raises nothing and leaves the stored
\* tables, the analysis result, the selection and the history log, in the
\* session and in the file, as they were.
C11_SchemaErrorAborts ==
    [][\A s \in Sessions :
          (ClickAnalyze(s) /\ ActualLacksRequired) =>
              /\ last_run'.shown = "error"
              /\ last_run'.errors # <<>>
              /\ UNCHANGED <<plan_df, actual_df, analysis_result, selected_provinces,
                             selected_cities, filter_applied, history, history_file>>]_vars

\* C12: when the Planned table lacks recommended columns, whichever they
\* are, the click on 开始分析 shows no error and the analysis returns a
\* result and raises nothing.  Stated for the files whose city columns hold
\* a string, for which validate_and_process_data returns.
C12_PlanColumnsOptional ==
    [][\A s \in Sessions :
          (ClickAnalyze(s) /\ PlanLacksRecommended
             /\ ~ValidateRaises(ClickedPlan, ClickedActual)) =>
              /\ last_run'.shown = "success"
              /\ last_run'.errors = <<>>
              /\ analysis_result' \notin {NoneResult, KeyError}]_vars

----------------------------------------------------------------------------
(* Properties of the recorded snapshot                                     *)

\* The table has the province column and a row that names a province.
HasProvince(p) ==
    /\ "shengfen" \in p.cols
    /\ \E i \in DOMAIN p.rows : p.rows[i].shengfen # None

\* The province of the first row that names one.
FirstProvince(p) ==
    LET first == CHOOSE i \in DOMAIN p.rows :
                    /\ p.rows[i].shengfen # None
                    /\ \A j \in 1..(i - 1) : p.rows[j].shengfen = None
    IN p.rows[first].shengfen

\* C21: the entry that a click on 开始分析 records holds the five scalars of
\* the result stored by that click, and when the normalized Planned table
\* names a province they are the scalars of the reconciliation of the
\* stored tables under the filter "first named province, no city"; a click
\* on 筛选 leaves the log of the session and the file as they were, and the
\* result it stores is the reconciliation under the selection it was given.
C21_SnapshotUnderDefault ==
    [][\A s \in Sessions :
          /\ (history'[s] # history[s] /\ ClickAnalyze(s)) =>
                /\ Len(history'[s]) = Len(history[s]) + 1
                /\ \A i \in DOMAIN history[s] : history'[s][i + 1] = history[s][i]
                /\ history'[s][1].stats = StatsOf(analysis_result')
                /\ HasProvince(plan_df') =>
                      \E r \in analyze_data_by_region(plan_df', actual_df',
                                                      {FirstProvince(plan_df')}, {}) :
                          /\ r \notin {NoneResult, KeyError}
                          /\ history'[s][1].stats = StatsOf(r)
          /\ ClickFilter(s, selected_provinces', selected_cities') =>
                /\ UNCHANGED <<history, history_file>>
                /\ last_run'.shown = "filtered" =>
                      analysis_result' \in analyze_data_by_region(
                          plan_df', actual_df', selected_provinces', selected_cities')]_vars

\* The session has analysed the files of the day, whose first named
\* province is A, and has then filtered on province B: the newest entry
\* holds the scalars of province A (one planned order, two completed, 200
\* per cent), the displayed result those of province B (one planned, one
\* completed), and the unfiltered tables plan three orders.
C21_Witness ==
    /\ last_run.widget = "filter"
    /\ last_run.shown = "filtered"
    /\ selected_provinces = {"B"}
    /\ selected_cities = {}
    /\ Len(history["s1"]) >= 1
    /\ history["s1"][1].stats.total_plan = 1
    /\ history["s1"][1].stats.total_actual = 2
    /\ history["s1"][1].stats.completion_rate = [num |-> 200, den |-> 1]
    /\ analysis_result.total_plan = 1
    /\ analysis_result.total_actual = 1
    /\ HasProvince(plan_df)
    /\ FirstProvince(plan_df) = "A"
    /\ plan_df.rows[1].shengfen = None
    /\ \A r \in analyze_data_by_region(plan_df, actual_df, {}, {}) :
          r # KeyError /\ r.total_plan = 3

====
